---- MODULE Spec2Model ----
(***************************************************************************)
(* RooStats::ProfileLikelihoodCalculator                                   *)
(* (roofit/roostats/src/ProfileLikelihoodCalculator.cxx)                   *)
(*                                                                         *)
(* The calculator holds non-owning pointers to a pdf, a dataset, a set of  *)
(* parameters of interest and a snapshot of null parameters, a size, and   *)
(* an owned, lazily computed global fit result (fFitResult).  The model    *)
(* parameters (RooRealVar: value, error, constant flag) are shared with    *)
(* the fitting engine, which reads its starting point from them and        *)
(* leaves every parameter it floats at the minimum it found.               *)
(*                                                                         *)
(* A pointer is modelled as a set with at most one element: {} is the null *)
(* pointer, {x} points to x.  Numbers that are doubles in the code are     *)
(* small integers here; probabilities are in units of 1/100.               *)
(***************************************************************************)
EXTENDS Integers, FiniteSets, Sequences, TLC

\* ---------------------------------------------------------------- bounds
MaxVal == 1
MaxNll == 1

\* -------------------------------------------------------------- universe
Params == {"mu", "nu"}
Vals == 0..MaxVal
Errs == {1}
NllVals == 0..MaxNll
Pdfs == {"pdfA", "pdfB"}
Datas == {"dataA"}
Sizes == {5, 10}
POISets == {{"mu"}, {"mu", "nu"}}
NullSets == {{"mu"}, {"mu", "nu"}}
One == 100

NoPtr == "none"

\* No ModelConfig: the calculator was not constructed from one.
NoConfig == [pdf |-> NoPtr, prior |-> NoPtr]

\* The prior pdfs a ModelConfig may carry.
Priors == {"priorA"}

\* "Costrained_" + pdf name + "_with_" + prior name: the RooProdPdf of the two.
ProdPdfName(pdf, prior) == "Costrained_" \o pdf \o "_with_" \o prior

\* Every pdf object there can be.
AllPdfs == Pdfs \cup Priors \cup {ProdPdfName(a, b) : a \in Pdfs, b \in Priors}

\* The pdfs a RooProdPdf is composed of (none for a plain pdf).
Factors(p) ==
  UNION {{ab[1], ab[2]} : ab \in {x \in Pdfs \X Priors : ProdPdfName(x[1], x[2]) = p}}
Null == {}
Ptr(x) == {x}
Deref(p) == CHOOSE x \in p : TRUE

VARIABLES
  fPdf,        \* RooAbsPdf*  : NoPtr or a pdf
  fData,       \* RooAbsData* : NoPtr or a dataset
  fPOI,        \* RooArgSet*  : Null or Ptr(set of parameter names)
  fNullParams, \* RooArgSet*  : Null or Ptr(function name -> null value)
  fSize,       \* Double_t, in 1/100
  fFitResult,  \* RooFitResult* : Null or Ptr(fit result), owned
  val,         \* RooRealVar::getVal   per model parameter
  err,         \* RooRealVar::getError per model parameter
  isConst,     \* RooRealVar::isConstant per model parameter
  pc,          \* position inside the running query, "idle" between calls
  loc,         \* locals of the running query
  ret,         \* what the last completed operation returned
  heap,        \* the objects allocated and not deleted
  config       \* the ModelConfig a calculator was constructed from

vars == <<fPdf, fData, fPOI, fNullParams, fSize, fFitResult,
          val, err, isConst, pc, loc, ret, heap, config>>

calc == <<fPdf, fData, fPOI, fNullParams, fSize>>
model == <<val, err, isConst>>

\* ------------------------------------------------------ fitting engine
\* pdf->getParameters(*data) followed by RemoveConstantParameters: the
\* parameters of the model that are not constant.
FreeParams(c) == {p \in Params : ~c[p]}

\* The options of the two fits: Strategy(1), Hesse(kTRUE) for the global fit,
\* Strategy(0), Hesse(kFALSE), Minos(kFALSE) for the conditional fit.
GlobalFitOptions == [strategy |-> 1, hesse |-> TRUE]
CondFitOptions == [strategy |-> 0, hesse |-> FALSE]

\* RooFitResult: the minimised NLL, the final values and errors of the floated
\* parameters, and the pdf, dataset and options of the fit that made it.
FitResult(pdf, data, floated, opts, nll, nv, ne) ==
  [minNll |-> nll, opts |-> opts,
   floatParsFinal |-> [p \in floated |-> [val |-> nv[p], err |-> ne]],
   pdf |-> pdf, data |-> data]

\* pdf->fitTo(*data, Constrain(...), ..., Save(kTRUE)).  The engine either
\* returns no result, or returns a result and leaves every floated parameter
\* at the fitted value and error.  Which minimum it finds is the engine's
\* business: every value of the domain is possible (one error per fit).
FitTo(pdf, data, floated, opts, v, e) ==
  {[fit |-> Null, val |-> v, err |-> e]}
  \cup
  {[fit |-> Ptr(FitResult(pdf, data, floated, opts, nll, nv, ne)),
    val |-> [p \in Params |-> IF p \in floated THEN nv[p] ELSE v[p]],
    err |-> [p \in Params |-> IF p \in floated THEN ne ELSE e[p]]] :
     nll \in NllVals, nv \in [floated -> Vals], ne \in Errs}

\* nll->getVal(): the NLL at the current parameter values.
EvalNll(pdf, data, v) == NllVals

\* profile->getVal(): the profile minimises over the floating parameters that
\* are not parameters of interest and leaves them at that minimum.
ProfileGetVal(poi, cp, c, v) ==
  {[p \in Params |-> IF p \in cp /\ p \notin poi /\ ~c[p] THEN nv[p] ELSE v[p]] :
     nv \in [Params -> Vals]}

\* ----------------------------------------------------- Global Fit Cache
\* Faulty variant: reset leaves the cached result in place.
KeepFitResult(fit) == fit

\* DoReset: delete the fit result and clear the pointer.
DoReset(fit) == Null

\* Faulty variant: the fit result is dropped without being deleted.
FreedNever(fit) == 0

\* if (fFitResult) delete fFitResult;  the number of objects this deletes.
Freed(fit) == IF fit # Null THEN 1 ELSE 0

\* DoGlobalFit.  Outcomes: the new fFitResult, the parameters as the engine
\* left them, the number of engine fits, whether the call crashed, and the
\* fit results it deleted (freed) and was given by the engine (made).  When
\* the engine returns no result, fit->Print() goes through a null pointer:
\* the build either faults there or carries on and stores the null pointer.
DoGlobalFit(fit, pdf, data, c, v, e) ==
  IF data = NoPtr \/ pdf = NoPtr
  THEN {[fit |-> DoReset(fit), val |-> v, err |-> e, nFit |-> 0, crashed |-> FALSE,
         freed |-> Freed(fit), made |-> 0]}
  ELSE UNION {
         IF o.fit = Null
         THEN {[fit |-> DoReset(fit), val |-> o.val, err |-> o.err, nFit |-> 1, crashed |-> TRUE,
                freed |-> Freed(fit), made |-> 0],
               [fit |-> Null, val |-> o.val, err |-> o.err, nFit |-> 1, crashed |-> FALSE,
                freed |-> Freed(fit), made |-> 0]}
         ELSE {[fit |-> o.fit, val |-> o.val, err |-> o.err, nFit |-> 1, crashed |-> FALSE,
                freed |-> Freed(fit), made |-> 1]} :
         o \in FitTo(pdf, data, FreeParams(c), GlobalFitOptions, v, e)}

\* Faulty variant: the global fit is run whether or not a result is cached.
AlwaysRefit(fit) == TRUE

\* if (!fFitResult) DoGlobalFit();
NeedGlobalFit(fit) == fit = Null

EnsureGlobalFit(fit, pdf, data, c, v, e) ==
  IF NeedGlobalFit(fit)
  THEN DoGlobalFit(fit, pdf, data, c, v, e)
  ELSE {[fit |-> fit, val |-> v, err |-> e, nFit |-> 0, crashed |-> FALSE,
         freed |-> 0, made |-> 0]}

\* ------------------------------------------------------------- locals
\* The locals of a query, with what the properties below need to remember of
\* it: the parameters as they were on entry (pre...) and at the freeze loop.
NoCall ==
  [op |-> "none", cachedAtStart |-> FALSE,
   preVal |-> [p \in Params |-> 0], preErr |-> [p \in Params |-> 0],
   preConst |-> [p \in Params |-> FALSE],
   preFreezeVal |-> [p \in Params |-> 0],
   constrainedParams |-> {}, live |-> {},
   nGlobalFit |-> 0, nCondFit |-> 0, nProfileEval |-> 0, nNllEval |-> 0,
   fit2 |-> Null,
   NLLatMLE |-> 0, NLLatCondMLE |-> 0,
   oldValues |-> [p \in Params |-> 0], existVarParams |-> FALSE]

\* The locals on entry to a query.
Enter(op) ==
  [NoCall EXCEPT !.op = op, !.cachedAtStart = (fFitResult # Null),
                 !.preVal = val, !.preErr = err, !.preConst = isConst]

\* What a completed operation leaves behind: the value returned to the
\* caller, and what the call did (whether the cache was filled when it
\* started, the engine fits it ran, the branch it took, what it left alive).
Returned(op, value, call) ==
  [op |-> op, value |-> value,
   cachedAtStart |-> call.cachedAtStart,
   nGlobalFit |-> call.nGlobalFit, nCondFit |-> call.nCondFit,
   existVarParams |-> call.existVarParams,
   NLLatMLE |-> call.NLLatMLE, NLLatCondMLE |-> call.NLLatCondMLE,
   live |-> call.live]

NullSet == IF fNullParams = Null THEN {} ELSE DOMAIN Deref(fNullParams)

\* ---------------------------------------------------------- GetInterval
\* if (!data || !pdf || !fPOI) return 0;
GetIntervalInputsMissing(pdf, data, poi) ==
  data = NoPtr \/ pdf = NoPtr \/ poi = Null

\* Faulty variant: the parameters of interest are left where they are.
SeedSkipped(poi, fpf, cur, field) == cur

\* The loop over fitParams: a POI found by name among the floated parameters
\* of the fit takes the fitted value (and error); the others keep theirs.
SeedPOI(poi, fpf, cur, field) ==
  [p \in Params |-> IF p \in poi /\ p \in DOMAIN fpf THEN fpf[p][field] ELSE cur[p]]

\* Faulty variant: the best-fit point is the POI set itself.
BestPOIIsPOI(poi, fpf, v, e) ==
  [a \in poi |-> [val |-> v[a], err |-> e[a], from |-> "poi"]]

\* bestPOI: for each POI, the fit result's parameter of that name if there is
\* one, the POI itself otherwise.
BestPOI(poi, fpf, v, e) ==
  [a \in poi |->
     IF a \in DOMAIN fpf
     THEN [val |-> fpf[a].val, err |-> fpf[a].err, from |-> "fit"]
     ELSE [val |-> v[a], err |-> e[a], from |-> "poi"]]

\* Faulty variant: the confidence level is left at the interval's default, 0.95.
DefaultConfidenceLevel(size) == 95

\* interval->SetConfidenceLevel(1.-fSize)
ConfidenceLevel(size) == One - size

GI_Start ==
  /\ pc = "idle"
  /\ IF GetIntervalInputsMissing(fPdf, fData, fPOI)
     THEN /\ ret' = Returned("GetInterval", Null, Enter("GetInterval"))
          /\ UNCHANGED <<pc, loc>>
     ELSE /\ pc' = "gi_fit"
          /\ loc' = [Enter("GetInterval") EXCEPT
                       !.constrainedParams = FreeParams(isConst),
                       !.live = {"constrainedParams", "nll", "profile"}]
          /\ UNCHANGED ret
  /\ UNCHANGED <<calc, fFitResult, model, heap, config>>

GI_Fit ==
  /\ pc = "gi_fit"
  /\ \E o \in EnsureGlobalFit(fFitResult, fPdf, fData, isConst, val, err) :
       /\ fFitResult' = o.fit
       /\ val' = o.val
       /\ err' = o.err
       /\ heap' = [heap EXCEPT !.fits = @ - o.freed + o.made]
       /\ LET l == [loc EXCEPT !.nGlobalFit = @ + o.nFit]
          IN IF o.crashed
             THEN pc' = "crashed" /\ loc' = l /\ UNCHANGED ret
             ELSE IF o.fit = Null
             THEN /\ pc' = "idle"
                  /\ loc' = NoCall
                  /\ ret' = Returned("GetInterval", Null, l)
             ELSE pc' = "gi_seed" /\ loc' = l /\ UNCHANGED ret
  /\ UNCHANGED <<calc, isConst, config>>

GI_Seed ==
  /\ pc = "gi_seed"
  /\ LET fpf == Deref(fFitResult).floatParsFinal
         poi == Deref(fPOI)
     IN /\ val' = SeedPOI(poi, fpf, val, "val")
        /\ err' = SeedPOI(poi, fpf, err, "err")
  /\ pc' = "gi_profile"
  /\ UNCHANGED <<calc, fFitResult, isConst, loc, ret, heap, config>>

GI_Profile ==
  /\ pc = "gi_profile"
  /\ val' \in ProfileGetVal(Deref(fPOI), loc.constrainedParams, isConst, val)
  /\ loc' = [loc EXCEPT !.nProfileEval = @ + 1]
  /\ pc' = "gi_build"
  /\ UNCHANGED <<calc, fFitResult, err, isConst, ret, heap, config>>

GI_Build ==
  /\ pc = "gi_build"
  /\ LET fit == Deref(fFitResult)
         interval == [kind |-> "interval",
                      bestPOI |-> BestPOI(Deref(fPOI), fit.floatParsFinal, val, err),
                      confidenceLevel |-> ConfidenceLevel(fSize)]
     IN ret' = Returned("GetInterval", Ptr(interval), [loc EXCEPT !.live = {}])
  /\ loc' = NoCall
  /\ pc' = "idle"
  /\ UNCHANGED <<calc, fFitResult, model, heap, config>>

\* ---------------------------------------------------------- GetHypoTest
\* Faulty variant: the null-parameter set is not checked.
NullParamsUnchecked(pdf, data, nullParams) == data = NoPtr \/ pdf = NoPtr

\* if (!data || !pdf) return 0;  if (!fNullParams) return 0;
GetHypoTestInputsMissing(pdf, data, nullParams) ==
  data = NoPtr \/ pdf = NoPtr \/ nullParams = Null

\* The freeze loop: a null parameter found by name in constrainedParams has
\* its value saved, is set to the null value and is made constant.
FreezeOld(nullVals, cp, v) ==
  [p \in Params |-> IF p \in DOMAIN nullVals /\ p \in cp THEN v[p] ELSE 0]

FreezeVal(nullVals, cp, v) ==
  [p \in Params |-> IF p \in DOMAIN nullVals /\ p \in cp THEN nullVals[p] ELSE v[p]]

FreezeConst(nullVals, cp, c) ==
  [p \in Params |-> IF p \in DOMAIN nullVals /\ p \in cp THEN TRUE ELSE c[p]]

\* Faulty variant: the conditional fit is never found worth doing.
NoVarParams(cp, c) == FALSE

\* nuisParams, with its constants removed, still holds a non-constant parameter.
ExistVarParams(cp, c) == \E p \in cp : ~c[p]

\* Faulty variant: the difference is not clamped.
UnclampedDelta(cond, mle) == cond - mle

\* std::max(NLLatCondMLE - NLLatMLE, 0.)
DeltaNLL(cond, mle) == IF cond - mle < 0 THEN 0 ELSE cond - mle

\* sqrt, rounded down; of a negative number it is NaN, written -1 here.
Sqrt(n) ==
  IF n < 0 THEN -1
  ELSE CHOOSE r \in 0..n : r * r <= n /\ (r + 1) * (r + 1) > n

\* Faulty variant: the restore loop leaves the null value in place.
KeepNullValue(nullNames, cp, old, v) == v

\* The restore loop: a null parameter found by name in constrainedParams gets
\* its saved value back and is made non-constant.
RestoreVal(nullNames, cp, old, v) ==
  [p \in Params |-> IF p \in nullNames /\ p \in cp THEN old[p] ELSE v[p]]

\* Faulty variant: the restore loop unfreezes every null parameter, found
\* in constrainedParams or not.
UnfreezeAllNull(nullNames, cp, c) ==
  [p \in Params |-> IF p \in nullNames THEN FALSE ELSE c[p]]

RestoreConst(nullNames, cp, c) ==
  [p \in Params |-> IF p \in nullNames /\ p \in cp THEN FALSE ELSE c[p]]

HT_Start ==
  /\ pc = "idle"
  /\ IF GetHypoTestInputsMissing(fPdf, fData, fNullParams)
     THEN /\ ret' = Returned("GetHypoTest", Null, Enter("GetHypoTest"))
          /\ UNCHANGED <<pc, loc>>
     ELSE /\ pc' = "ht_fit"
          /\ loc' = Enter("GetHypoTest")
          /\ UNCHANGED ret
  /\ UNCHANGED <<calc, fFitResult, model, heap, config>>

HT_Fit ==
  /\ pc = "ht_fit"
  /\ \E o \in EnsureGlobalFit(fFitResult, fPdf, fData, isConst, val, err) :
       /\ fFitResult' = o.fit
       /\ val' = o.val
       /\ err' = o.err
       /\ heap' = [heap EXCEPT !.fits = @ - o.freed + o.made]
       /\ LET l == [loc EXCEPT !.nGlobalFit = @ + o.nFit]
          IN IF o.crashed
             THEN pc' = "crashed" /\ loc' = l /\ UNCHANGED ret
             ELSE IF o.fit = Null
             THEN /\ pc' = "idle"
                  /\ loc' = NoCall
                  /\ ret' = Returned("GetHypoTest", Null, l)
             ELSE /\ pc' = "ht_freeze"
                  /\ loc' = [l EXCEPT !.constrainedParams = FreeParams(isConst),
                                      !.live = {"constrainedParams"},
                                      !.NLLatMLE = Deref(o.fit).minNll]
                  /\ UNCHANGED ret
  /\ UNCHANGED <<calc, isConst, config>>

HT_Freeze ==
  /\ pc = "ht_freeze"
  /\ LET nullVals == Deref(fNullParams)
         cp == loc.constrainedParams
     IN /\ loc' = [loc EXCEPT !.oldValues = FreezeOld(nullVals, cp, val),
                              !.preFreezeVal = val]
        /\ val' = FreezeVal(nullVals, cp, val)
        /\ isConst' = FreezeConst(nullVals, cp, isConst)
  /\ pc' = "ht_cond"
  /\ UNCHANGED <<calc, fFitResult, err, ret, heap, config>>

\* Faulty variant: the result of the conditional fit is put in the cache.
CondFitCached(fit, fit2) == fit2

\* fFitResult after the conditional fit: fit2 is a local, never assigned to it.
CacheAfterCondFit(fit, fit2) == fit

\* The conditional fit, or the plain NLL when nothing floats.  fit2->minNll()
\* on a null fit2 reads through a null pointer: the build either faults there
\* or carries on with whatever it read.
HT_Cond ==
  /\ pc = "ht_cond"
  /\ LET cp == loc.constrainedParams IN
     IF ExistVarParams(cp, isConst)
     THEN \E o \in FitTo(fPdf, fData, {p \in cp : ~isConst[p]},
                          CondFitOptions, val, err) :
            /\ fFitResult' = CacheAfterCondFit(fFitResult, o.fit)
            /\ val' = o.val
            /\ err' = o.err
            /\ LET l == [loc EXCEPT !.existVarParams = TRUE, !.nCondFit = @ + 1,
                                     !.fit2 = o.fit]
               IN IF o.fit = Null
                  THEN \/ pc' = "crashed" /\ loc' = l
                       \/ \E g \in NllVals :
                            /\ pc' = "ht_restore"
                            /\ loc' = [l EXCEPT !.NLLatCondMLE = g]
                  ELSE /\ pc' = "ht_restore"
                       /\ loc' = [l EXCEPT !.NLLatCondMLE = Deref(o.fit).minNll,
                                           !.live = @ \cup {"fit2"}]
     ELSE /\ \E n \in EvalNll(fPdf, fData, val) :
               loc' = [loc EXCEPT !.existVarParams = FALSE, !.NLLatCondMLE = n,
                                  !.nNllEval = @ + 1]
          /\ pc' = "ht_restore"
          /\ UNCHANGED <<val, err, fFitResult>>
  /\ UNCHANGED <<calc, isConst, ret, heap, config>>

HT_Restore ==
  /\ pc = "ht_restore"
  /\ LET deltaNLL == DeltaNLL(loc.NLLatCondMLE, loc.NLLatMLE)
         htr == [kind |-> "hypotest",
                 deltaNLL |-> deltaNLL,
                 significance |-> Sqrt(2 * deltaNLL)]
         cp == loc.constrainedParams
     IN /\ val' = RestoreVal(NullSet, cp, loc.oldValues, val)
        /\ isConst' = RestoreConst(NullSet, cp, isConst)
        /\ ret' = Returned("GetHypoTest", Ptr(htr),
                           [loc EXCEPT !.live = @ \ {"constrainedParams"}])
  /\ loc' = NoCall
  /\ pc' = "idle"
  /\ UNCHANGED <<calc, fFitResult, err, heap, config>>

\* ------------------------------------------------------- configuration
\* reset: DoReset.
Reset ==
  /\ pc = "idle"
  /\ fFitResult' = DoReset(fFitResult)
  /\ heap' = [heap EXCEPT !.fits = @ - Freed(fFitResult)]
  /\ ret' = Returned("Reset", Null, Enter("Reset"))
  /\ UNCHANGED <<calc, model, pc, loc, config>>

\* DoGlobalFit invoked on its own, whatever the cache holds.
GlobalFit ==
  /\ pc = "idle"
  /\ \E o \in DoGlobalFit(fFitResult, fPdf, fData, isConst, val, err) :
       /\ fFitResult' = o.fit
       /\ val' = o.val
       /\ err' = o.err
       /\ heap' = [heap EXCEPT !.fits = @ - o.freed + o.made]
       /\ LET l == [Enter("DoGlobalFit") EXCEPT !.nGlobalFit = o.nFit]
          IN IF o.crashed
             THEN pc' = "crashed" /\ loc' = l /\ UNCHANGED ret
             ELSE /\ pc' = "idle"
                  /\ loc' = NoCall
                  /\ ret' = Returned("DoGlobalFit", o.fit, l)
  /\ UNCHANGED <<calc, isConst, config>>

\* What the destructor leaves of the pdfs: all of them ("cannot delete prod
\* pdf because it will delete all the composing pdf's").
PdfsAfterDestroy(pdfs, pdf) == pdfs

\* The destructor: the fit result is deleted, the pdf is not.  The pointer
\* members go with the object; nothing of the calculator runs afterwards.
Destroy ==
  /\ pc = "idle"
  /\ pc' = "destroyed"
  /\ heap' = [heap EXCEPT !.fits = @ - Freed(fFitResult),
                          !.pdfs = PdfsAfterDestroy(@, fPdf)]
  /\ UNCHANGED <<calc, fFitResult, model, loc, ret, config>>

\* CombinedCalculator(data, model, size): the pdf it takes from the ModelConfig.
CombinedCalculatorPdf(cfg) == cfg.pdf

\* ModelConfig::SetPdf: the ModelConfig's pdf is the one given.
ModelConfigSetPdf(cfg, pdf) == [cfg EXCEPT !.pdf = pdf]

\* Faulty variant: the prior of the ModelConfig is not looked at.
PriorIgnored(pdf, prior) == pdf

\* The pdf the ModelConfig constructor leaves in fPdf: the product of the
\* config's pdf and prior when there is a prior, else the config's pdf as the
\* base class stored it.
ComposedPdf(pdf, prior) ==
  IF prior # NoPtr THEN ProdPdfName(pdf, prior) ELSE pdf

\* ProfileLikelihoodCalculator(data, model, size).  assert(model.GetPdf())
\* stops a build with assertions on a ModelConfig without pdf; a build without
\* them goes on, and with a prior reads the name through the null pointer.
\* The base class takes the dataset, the size and, from the ModelConfig, the
\* pdf, the parameters of interest and the null parameters.
ConstructFromModelConfig ==
  /\ pc = "unbuilt"
  /\ \E d \in Datas, size \in Sizes, v \in Vals :
       \/ /\ config.pdf = NoPtr
          /\ pc' = "crashed"
          /\ UNCHANGED <<calc, heap, config>>
       \/ /\ config.pdf # NoPtr \/ config.prior = NoPtr
          /\ pc' = "idle"
          /\ fPdf' = ComposedPdf(CombinedCalculatorPdf(config), config.prior)
          /\ fData' = d
          /\ fSize' = size
          /\ fPOI' = Ptr({"mu"})
          /\ fNullParams' = Ptr([p \in {"mu"} |-> v])
          /\ heap' = [heap EXCEPT !.pdfs = @ \cup ({fPdf'} \ {NoPtr})]
          /\ config' = IF config.prior # NoPtr
                       THEN ModelConfigSetPdf(config, fPdf')
                       ELSE config
  /\ UNCHANGED <<fFitResult, model, loc, ret>>

\* The setters of the calculator contract: they store the pointer.
SetPdf(p) ==
  /\ pc = "idle"
  /\ fPdf' = p
  /\ ret' = Returned("SetPdf", Null, Enter("SetPdf"))
  /\ UNCHANGED <<fData, fPOI, fNullParams, fSize, fFitResult, model, pc, loc,
               heap, config>>

SetData(d) ==
  /\ pc = "idle"
  /\ fData' = d
  /\ ret' = Returned("SetData", Null, Enter("SetData"))
  /\ UNCHANGED <<fPdf, fPOI, fNullParams, fSize, fFitResult, model, pc, loc,
               heap, config>>

\* ------------------------------------------------------- specification
\* The calculator as constructed: by the default constructor and setters, or
\* from data, pdf, parameters of interest, size and null parameters.  No fit
\* has been made.  The model's parameters start at 0 with no error; any of
\* them may be constant in the model.
Init ==
  /\ fPdf \in {NoPtr, "pdfA"}
  /\ fData \in {NoPtr, "dataA"}
  /\ fPOI \in {Null} \cup {Ptr(S) : S \in POISets}
  /\ fNullParams \in {Null} \cup
        {Ptr([p \in S |-> v]) : S \in NullSets, v \in Vals}
  /\ fSize \in Sizes
  /\ fFitResult = Null
  /\ val = [p \in Params |-> 0]
  /\ err = [p \in Params |-> 0]
  /\ isConst \in [Params -> BOOLEAN]
  /\ pc = "idle"
  /\ loc = NoCall
  /\ ret = Returned("construct", Null, NoCall)
  /\ heap = [fits |-> 0, pdfs |-> Pdfs]
  /\ config = NoConfig

Next ==
  \/ GI_Start
  \/ GI_Fit
  \/ GI_Seed
  \/ GI_Profile
  \/ GI_Build
  \/ HT_Start
  \/ HT_Fit
  \/ HT_Freeze
  \/ HT_Cond
  \/ HT_Restore
  \/ Reset
  \/ GlobalFit
  \/ Destroy
  \/ \E p \in Pdfs : SetPdf(p)
  \/ \E d \in Datas : SetData(d)

Spec == Init /\ [][Next]_vars

\* Before the constructor from a ModelConfig has run: the ModelConfig holds a
\* pdf (or none) and possibly a prior, and these pdfs exist.
InitModelConfig ==
  /\ fPdf = NoPtr
  /\ fData = NoPtr
  /\ fPOI = Null
  /\ fNullParams = Null
  /\ fSize = 5
  /\ fFitResult = Null
  /\ val = [p \in Params |-> 0]
  /\ err = [p \in Params |-> 0]
  /\ isConst \in [Params -> BOOLEAN]
  /\ pc = "unbuilt"
  /\ loc = NoCall
  /\ ret = Returned("construct", Null, NoCall)
  /\ config \in [pdf : {NoPtr, "pdfA"}, prior : {NoPtr} \cup Priors]
  /\ heap = [fits |-> 0, pdfs |-> Pdfs \cup Priors]

NextModelConfig ==
  \/ ConstructFromModelConfig
  \/ Next

SpecModelConfig == InitModelConfig /\ [][NextModelConfig]_vars

TypeOK ==
  /\ fPdf \in {NoPtr} \cup AllPdfs
  /\ heap.pdfs \subseteq AllPdfs
  /\ config.pdf \in {NoPtr} \cup AllPdfs
  /\ fData \in {NoPtr} \cup Datas
  /\ fSize \in Sizes
  /\ Cardinality(fFitResult) <= 1
  /\ val \in [Params -> Vals]
  /\ isConst \in [Params -> BOOLEAN]
  /\ heap.fits \in 0..1
  /\ pc \in {"idle", "crashed", "destroyed", "unbuilt", "gi_fit", "gi_seed", "gi_profile", "gi_build",
             "ht_fit", "ht_freeze", "ht_cond", "ht_restore"}

\* ====================================================== properties
QueryOps == {"GetInterval", "GetHypoTest"}

\* The running query holds a global fit result and works from it.
PastGlobalFit ==
  pc \in {"gi_seed", "gi_profile", "gi_build", "ht_freeze", "ht_cond", "ht_restore"}

\* This step ends a query that got past its input checks.
QueryReturns == pc # "idle" /\ pc' = "idle"

\* C1: of two consecutive queries with no reset (nor anything else) between
\* them, the first of which produced a result, the second runs no global fit;
\* together they run exactly one when the first started with an empty cache
\* (and none when it started with a filled one).
C1_SecondQueryReusesFit ==
  [][(QueryReturns /\ ret.op \in QueryOps /\ ret.value # Null)
       => /\ ret'.nGlobalFit = 0
          /\ ret.nGlobalFit + ret'.nGlobalFit = (IF ret.cachedAtStart THEN 0 ELSE 1)]_vars

\* C1 witness: a hypothesis test past its global-fit step having run no fit,
\* right after an interval query that ran the one global fit.
C1_Witness ==
  /\ pc = "ht_restore"
  /\ loc.nGlobalFit = 0
  /\ ret.op = "GetInterval" /\ ret.value # Null
  /\ ~ret.cachedAtStart /\ ret.nGlobalFit = 1

\* C2: reset leaves the cache empty, and the query that follows a reset and
\* has its inputs runs one global fit in its global-fit step, before it
\* builds any result.
C2_ResetThenRefit ==
  [][/\ (pc = "idle" /\ pc' = "idle" /\ ret'.op = "Reset") => fFitResult' = Null
     /\ (ret.op = "Reset" /\ pc \in {"gi_fit", "ht_fit"})
          => (IF pc' = "idle" THEN ret'.nGlobalFit ELSE loc'.nGlobalFit) = 1]_vars

\* C2 witness: an interval query that follows a reset of a filled cache and
\* has just made its own global fit.
C2_Witness ==
  /\ ret.op = "Reset" /\ ret.cachedAtStart
  /\ pc = "gi_seed" /\ loc.nGlobalFit = 1 /\ fFitResult # Null

\* C3 as claimed: when GetHypoTest returns its result, every parameter named
\* in the null set has the value and the constant flag it had when the call
\* started.
C3_NullParamsAsBeforeCall ==
  [][(pc = "ht_restore" /\ pc' = "idle")
       => \A n \in NullSet : val'[n] = loc.preVal[n] /\ isConst'[n] = loc.preConst[n]]_vars

\* C3 amended: when GetHypoTest returns its result, every parameter named in
\* the null set has the constant flag it had when the call started and the
\* value it had when the freeze loop started; that is the value it had when
\* the call started if the global fit was already cached.
C3_NullParamsAsBeforeFreeze ==
  [][(pc = "ht_restore" /\ pc' = "idle")
       => \A n \in NullSet :
            /\ isConst'[n] = loc.preConst[n]
            /\ val'[n] = loc.preFreezeVal[n]
            /\ (loc.cachedAtStart => val'[n] = loc.preVal[n])]_vars

\* C3 witness: a hypothesis test has returned its result after running the
\* global fit itself and a conditional fit, and the null parameter mu, which
\* it froze at its null value, is free again and away from that value.
C3_Witness ==
  /\ pc = "idle" /\ ret.op = "GetHypoTest" /\ ret.value # Null
  /\ ret.nGlobalFit = 1 /\ ret.existVarParams
  /\ "mu" \in NullSet /\ ~isConst["mu"]
  /\ val["mu"] # Deref(fNullParams)["mu"]

\* C4: with the dataset or the model missing, or with an engine that returns
\* no global fit, the cache stays empty, the query returns null and the call
\* does not end abnormally in its global-fit step.
C4_NoFitNoCrash ==
  /\ (pc = "crashed" => loc.nCondFit > 0)
  /\ (pc = "idle" /\ ret.op \in QueryOps /\ (fPdf = NoPtr \/ fData = NoPtr))
       => (ret.value = Null /\ fFitResult = Null)
  /\ (pc = "idle" /\ ret.op \in QueryOps /\ fFitResult = Null) => ret.value = Null

\* C5: a query that lacks a required input returns null at once: no engine
\* fit, the cache and every parameter as they were.
C5_MissingInputNoEffect ==
  [][/\ (/\ pc = "idle"
         /\ (fData = NoPtr \/ fPdf = NoPtr \/ fPOI = Null)
         /\ (pc' = "gi_fit" \/ (pc' = "idle" /\ ret'.op = "GetInterval")))
          => /\ pc' = "idle" /\ ret'.value = Null
             /\ ret'.nGlobalFit = 0 /\ ret'.nCondFit = 0
             /\ UNCHANGED <<fFitResult, val, err, isConst>>
     /\ (/\ pc = "idle"
         /\ (fData = NoPtr \/ fPdf = NoPtr \/ fNullParams = Null)
         /\ (pc' = "ht_fit" \/ (pc' = "idle" /\ ret'.op = "GetHypoTest")))
          => /\ pc' = "idle" /\ ret'.value = Null
             /\ ret'.nGlobalFit = 0 /\ ret'.nCondFit = 0
             /\ UNCHANGED <<fFitResult, val, err, isConst>>]_vars

\* C5 witness: GetInterval without a POI set has returned null and left a
\* filled cache in place.
C5_Witness ==
  /\ pc = "idle" /\ ret.op = "GetInterval" /\ ret.value = Null
  /\ fPOI = Null /\ fPdf # NoPtr /\ fData # NoPtr
  /\ ret.nGlobalFit = 0 /\ fFitResult # Null

\* C6: on every exit of GetHypoTest after the freeze loop, every null
\* parameter has its constant flag and its saved value back.
C6_UnfrozenOnEveryExit ==
  [][(pc \in {"ht_cond", "ht_restore"} /\ pc' \in {"idle", "crashed"})
       => \A n \in NullSet :
            isConst'[n] = loc.preConst[n] /\ val'[n] = loc.preFreezeVal[n]]_vars

\* C7: the deltaNLL of a hypothesis-test result is NLLatCondMLE - NLLatMLE
\* when that is positive and 0 otherwise; it is never negative, and the
\* significance is 0 when NLLatCondMLE <= NLLatMLE.
C7_DeltaNLLClamped ==
  (ret.op = "GetHypoTest" /\ ret.value # Null)
    => LET d == ret.NLLatCondMLE - ret.NLLatMLE
           r == Deref(ret.value)
       IN /\ r.deltaNLL = (IF d > 0 THEN d ELSE 0)
          /\ r.deltaNLL >= 0
          /\ (ret.NLLatCondMLE <= ret.NLLatMLE => r.significance = 0)

\* C7 witness: a result whose conditional NLL came out below the NLL of the
\* global fit.
C7_Witness ==
  /\ ret.op = "GetHypoTest" /\ ret.value # Null
  /\ ret.NLLatCondMLE < ret.NLLatMLE
  /\ Deref(ret.value).deltaNLL = 0

\* C8: the best-fit point of a returned interval has one entry per POI: the
\* fit result's parameter when the POI's name is among the floated parameters
\* of the fit, and otherwise the POI with the value and error it had when the
\* call started.
C8_BestFitPoint ==
  [][(pc = "gi_build" /\ pc' = "idle")
       => LET best == Deref(ret'.value).bestPOI
              fpf == Deref(fFitResult).floatParsFinal
          IN /\ DOMAIN best = Deref(fPOI)
             /\ \A a \in Deref(fPOI) :
                  IF a \in DOMAIN fpf
                  THEN best[a] = [val |-> fpf[a].val, err |-> fpf[a].err, from |-> "fit"]
                  ELSE best[a] = [val |-> loc.preVal[a], err |-> loc.preErr[a],
                                  from |-> "poi"]]_vars

\* C8 witness: a returned interval whose best-fit point has a fitted
\* parameter and a POI that the fit did not float.
C8_Witness ==
  /\ pc = "idle" /\ ret.op = "GetInterval" /\ ret.value # Null
  /\ LET best == Deref(ret.value).bestPOI
     IN /\ "mu" \in DOMAIN best /\ best["mu"].from = "fit" /\ best["mu"].val # 0
        /\ "nu" \in DOMAIN best /\ best["nu"].from = "poi"

\* C9: a query that works from the global fit result works from a fit of
\* the calculator's current model and dataset.
C9_FitOfCurrentInputs ==
  PastGlobalFit
    => /\ Deref(fFitResult).pdf = fPdf
       /\ Deref(fFitResult).data = fData

\* C10: a returned interval has confidence level 1 - size (0.95 for 0.05).
C10_ConfidenceLevel ==
  (ret.op = "GetInterval" /\ ret.value # Null)
    => /\ Deref(ret.value).confidenceLevel + fSize = One
       /\ (fSize = 5 => Deref(ret.value).confidenceLevel = 95)

\* C10 witness: an interval built from a cached fit with size 0.10 has
\* confidence level 0.90.
C10_Witness ==
  /\ pc = "idle" /\ ret.op = "GetInterval" /\ ret.value # Null
  /\ ret.cachedAtStart /\ fSize = 10
  /\ Deref(ret.value).confidenceLevel = 90

C12_IntermediatesReleased ==
  (pc = "idle" /\ ret.op \in QueryOps) => ret.live = {}

\* C13: at the step after the freeze, when a parameter of constrainedParams
\* is still not constant one conditional fit is run, the NLL is not evaluated
\* apart from it, and NLLatCondMLE is the minNll of the result the fit gave;
\* when none is, no fit is run, the parameters stay where the freeze put them,
\* and NLLatCondMLE is the one evaluation of the NLL there.
C13_CondFitOrPlainNll ==
  [][pc = "ht_cond" =>
       IF \E p \in loc.constrainedParams : ~isConst[p]
       THEN /\ loc'.nCondFit = 1 /\ loc'.nNllEval = 0
            /\ loc'.fit2 # Null => loc'.NLLatCondMLE = Deref(loc'.fit2).minNll
       ELSE /\ loc'.nCondFit = 0 /\ loc'.nNllEval = 1 /\ loc'.fit2 = Null
            /\ loc'.NLLatCondMLE \in EvalNll(fPdf, fData, val)
            /\ UNCHANGED <<val, err>>
            /\ \A p \in NullSet \cap loc.constrainedParams :
                 val[p] = Deref(fNullParams)[p]]_vars

\* C13 witness: the conditional fit has run once over the floating nuisance
\* parameter, with mu frozen, and its minNll (1, above the 0 of the global
\* fit) is NLLatCondMLE.
C13_Witness ==
  /\ pc = "ht_restore" /\ loc.nCondFit = 1 /\ loc.fit2 # Null
  /\ loc.constrainedParams = {"mu", "nu"} /\ isConst["mu"] /\ ~isConst["nu"]
  /\ loc.NLLatMLE = 0 /\ loc.NLLatCondMLE = 1
  /\ Deref(loc.fit2).minNll = 1

\* C14: when getHypoTest returns its result, every parameter of the free set
\* that is not a null parameter has the value and the const-flag it had
\* immediately before the freeze loop.
C14_NuisanceAsBeforeFreeze ==
  [][(pc = "ht_restore" /\ pc' = "idle")
       => \A p \in loc.constrainedParams \ NullSet :
            val'[p] = loc.preFreezeVal[p] /\ isConst'[p] = loc.preConst[p]]_vars

\* C15: a null parameter that is not in the free-parameter set of the call
\* (it is constant in the model) is passed over by every step of getHypoTest:
\* its value and error stay as they are and it stays constant, through the
\* restore loop too.
C15_ConstantNullParamSkipped ==
  [][(pc \in {"ht_fit", "ht_freeze", "ht_cond", "ht_restore"})
       => \A p \in (IF pc = "ht_fit" THEN {q \in NullSet : isConst[q]}
                    ELSE NullSet \ loc.constrainedParams) :
            (loc.preConst[p] /\ isConst[p] /\ isConst'[p]
             /\ val'[p] = val[p] /\ err'[p] = err[p]
             /\ val[p] = loc.preVal[p])]_vars

\* C15 witness: a hypothesis test of {mu, nu} with nu constant in the model
\* has returned its result: mu is floating again, nu is still constant and
\* still at a value that is not its null value.
C15_Witness ==
  /\ pc = "idle" /\ ret.op = "GetHypoTest" /\ ret.value # Null
  /\ NullSet = {"mu", "nu"}
  /\ ~isConst["mu"] /\ isConst["nu"]
  /\ val["nu"] # Deref(fNullParams)["nu"]

\* C16: in getInterval, once the global fit result is there: the seeding step
\* comes before any evaluation of the profile and gives every parameter of
\* interest that is among floatParsFinal the value and error of the fit,
\* leaving every other parameter as it is; the profile is then evaluated, for
\* the first time, with those values in place; and the interval is assembled
\* after exactly one evaluation.
C16_SeedThenProfileOnce ==
  [][/\ pc = "gi_seed" =>
          /\ loc.nProfileEval = 0 /\ pc' = "gi_profile"
          /\ \A p \in Params :
               IF p \in Deref(fPOI) /\ p \in DOMAIN Deref(fFitResult).floatParsFinal
               THEN /\ val'[p] = Deref(fFitResult).floatParsFinal[p].val
                    /\ err'[p] = Deref(fFitResult).floatParsFinal[p].err
               ELSE val'[p] = val[p] /\ err'[p] = err[p]
     /\ pc = "gi_profile" =>
          /\ loc.nProfileEval = 0 /\ loc'.nProfileEval = 1 /\ pc' = "gi_build"
          /\ \A p \in Deref(fPOI) \cap DOMAIN Deref(fFitResult).floatParsFinal :
               /\ val[p] = Deref(fFitResult).floatParsFinal[p].val
               /\ err[p] = Deref(fFitResult).floatParsFinal[p].err
     /\ pc = "gi_build" => (loc.nProfileEval = 1 /\ ret'.value # Null)]_vars

\* C16 witness: an interval query on a cached result is about to evaluate the
\* profile for the first time; the seeding has moved nu, a parameter of
\* interest, from where the call found it to its fit value.
C16_Witness ==
  /\ pc = "gi_profile" /\ loc.cachedAtStart /\ loc.nProfileEval = 0
  /\ "nu" \in Deref(fPOI) /\ "nu" \in DOMAIN Deref(fFitResult).floatParsFinal
  /\ val["nu"] # loc.preVal["nu"]
  /\ val["nu"] = Deref(fFitResult).floatParsFinal["nu"].val

\* C17: the fit results made by the global fit and not yet deleted are the
\* one fFitResult points to while the calculator lives, and none once it is
\* destroyed (each is deleted once: by the reset, by the next global fit or by
\* the destructor); and wherever a query works from the cached result, the
\* pointer is set and the result it points to is alive.
C17_OneOwnedFitResult ==
  /\ heap.fits = (IF fFitResult # Null /\ pc # "destroyed" THEN 1 ELSE 0)
  /\ PastGlobalFit => (fFitResult # Null /\ heap.fits = 1)

\* C17 witness: the calculator has been destroyed holding a result that had
\* taken the place of an earlier one, and no fit result is left alive.
C17_Witness ==
  /\ pc = "destroyed" /\ fFitResult # Null /\ heap.fits = 0
  /\ ret.op = "DoGlobalFit" /\ ret.cachedAtStart /\ ret.value = fFitResult

\* C18: the constructor from a ModelConfig leaves the cache empty; with a
\* prior, fPdf is the product of the config's pdf and prior, a new object that
\* is also made the config's pdf, the prior staying in the config; without a
\* prior fPdf is the config's pdf and the config is as it was.  The destructor
\* deletes no pdf: the product and its factors are alive after it.
C18_ModelConfigConstruction ==
  [][/\ (pc = "unbuilt" /\ pc' = "idle")
          => /\ fFitResult' = Null /\ heap'.fits = 0
             /\ IF config.prior # NoPtr
                THEN /\ fPdf' = ProdPdfName(config.pdf, config.prior)
                     /\ Factors(fPdf') = {config.pdf, config.prior}
                     /\ config' = [pdf |-> fPdf', prior |-> config.prior]
                     /\ heap'.pdfs = heap.pdfs \cup {fPdf'}
                ELSE /\ fPdf' = config.pdf
                     /\ config' = config
                     /\ heap'.pdfs = heap.pdfs
     /\ pc' = "destroyed"
          => /\ heap'.pdfs = heap.pdfs
             /\ config.prior # NoPtr
                  => ({config.pdf} \cup Factors(config.pdf)) \subseteq heap'.pdfs]_vars

\* C18 witness: a calculator constructed from a ModelConfig with pdfA and
\* priorA has been destroyed while still on the product, which is the
\* config's pdf; the product and both factors are alive.
C18_Witness ==
  /\ pc = "destroyed"
  /\ config = [pdf |-> ProdPdfName("pdfA", "priorA"), prior |-> "priorA"]
  /\ fPdf = config.pdf
  /\ {"pdfA", "priorA", fPdf} \subseteq heap.pdfs
  /\ heap.fits = 0 /\ fFitResult # Null

\* C19: whatever fFitResult points to was made by the fit of DoGlobalFit
\* (Strategy 1, Hesse on, over the parameters free in the model); the step of
\* the conditional fit leaves fFitResult as it is, and the result it gets
\* (Strategy 0, Hesse off) stays in the local fit2.
C19_CacheHoldsGlobalFitOnly ==
  [][/\ fFitResult' # Null => Deref(fFitResult').opts = GlobalFitOptions
     /\ pc = "ht_cond"
          => /\ fFitResult' = fFitResult
             /\ loc'.fit2 # Null
                  => /\ Deref(loc'.fit2).opts = CondFitOptions
                     /\ loc'.fit2 # fFitResult']_vars

\* C19 witness: the conditional fit has returned a result with the same
\* minimum and the same parameter values as the cached one over the same
\* floated parameters, and the cache still holds the global fit's.
C19_Witness ==
  /\ pc = "ht_restore" /\ loc.fit2 # Null /\ fFitResult # Null
  /\ Deref(loc.fit2).minNll = Deref(fFitResult).minNll
  /\ DOMAIN Deref(loc.fit2).floatParsFinal = {"nu"}
  /\ DOMAIN Deref(fFitResult).floatParsFinal = {"mu", "nu"}
  /\ Deref(fFitResult).opts = GlobalFitOptions

\* C20: in getHypoTest the global fit comes before the freeze: the step that
\* ensures the global fit finds every const-flag as the call found it and
\* leaves it so; when the fit gives no result the call returns null from that
\* step; the freeze loop starts with the result cached and its minNll taken;
\* and from the freeze loop on no global fit is run.
C20_GlobalFitBeforeFreeze ==
  [][/\ pc = "ht_fit"
          => /\ isConst = loc.preConst /\ isConst' = isConst
             /\ fFitResult' = Null
                  => (pc' = "idle" /\ ret'.op = "GetHypoTest" /\ ret'.value = Null)
             /\ fFitResult' # Null => pc' = "ht_freeze"
     /\ pc = "ht_freeze"
          => /\ fFitResult # Null
             /\ loc.NLLatMLE = Deref(fFitResult).minNll
             /\ isConst = loc.preConst
     /\ (pc \in {"ht_freeze", "ht_cond", "ht_restore"})
          => /\ fFitResult' = fFitResult
             /\ (IF pc' = "idle" THEN ret'.nGlobalFit ELSE loc'.nGlobalFit)
                  = loc.nGlobalFit]_vars

====
